---- MODULE Spec2Model ----
(***************************************************************************)
(* Synchronisation harness of the level-zero conformance tests:            *)
(*   - the condition-variable barrier of the two-thread sysman memory/RAS  *)
(*     test (test_sysman_memory.cpp),                                      *)
(*   - the IPC event child process (main of the IPC event helper),         *)
(*   - the child debugger process (child_debugger.cpp).                    *)
(* Each program is a state machine of its own with its own specification;  *)
(* the variables of the other programs stay at their initial values.       *)
(***************************************************************************)
EXTENDS Integers, Sequences, FiniteSets, TLC

\* ------------------------------------------------------------------ bounds
\* Longest `devices` list of the test fixture that is explored.
MaxDevices == 2
\* Largest handle count get_mem_handles / get_ras_handles may report.
MaxHandles == 2
\* Largest exit code of the launched child application that is explored.
MaxChildExit == 2
\* Largest --index argument of the debugger that is explored.
MaxIndex == 1
\* Largest maxMemAllocSize of a device that is explored, in units of 2 GiB.
MaxAllocSize == 3
\* Largest free size one memory module reports that is explored, in units of 2 GiB.
MaxModuleFree == 1
\* Loop iterations explored beyond the number the free memory allows.
MaxExtraIterations == 1

VARIABLES
    \* ---- two-thread memory/RAS test
    numDevices,   \* length of the fixture's `devices` list
    devIdx,       \* position of the range-for over `devices` (1-based)
    mainPc,       \* position of the test body
    pc,           \* pc[t]: position of thread t
    count,        \* count[t]: handle count the thread obtained
    idx,          \* idx[t]: position of the thread's range-for over its handles
    ready,        \* the namespace-scope counter `ready`
    mutexOwner,   \* owner of mem_mutex, or "none"
    arrived,      \* history: t has incremented `ready` for the current device
    earlyReturn,  \* history: t hit FAIL() before the barrier for the current device
    queries,      \* history: number of driver queries t made for the current device
    zeroSeen,     \* history: some handle enumeration of the test returned count 0
    \* ---- IPC event child
    ipcPc,        \* position of the child's main
    shm,          \* the record in the "ipc_event_test" shared memory segment
    shared_data,  \* main's local shared_data_t
    hEventPool,   \* main's local event-pool handle
    ipcExit,      \* exit status of the child, or NoExit
    ipcLog,       \* history: what the child did, in order
    ipcActions,   \* history: the child actions that ran, in order
    \* ---- child debugger
    dbgPc,        \* position of the debugger's main
    options,      \* the parsed debugger_options
    dbgResult,    \* main's `result`, the value zeInit returned
    device,       \* result of find_device
    child,        \* the launched child application (debug_helper)
    debug_config, \* zet_debug_config_t handed to debug_attach
    debugSession, \* result of debug_attach
    notified,     \* synchro: the application has been told to proceed
    dbgExit,      \* exit status of the debugger, or NoExit
    dbgLog,       \* history: what the debugger did, in order
    \* ---- allocate-until-out-of-memory test (sizes in units of 2 GiB)
    allocDevIdx,        \* position of the range-for over `devices` (1-based)
    allocPc,            \* position of the test body
    max_alloc_size,     \* deviceProperties.maxMemAllocSize
    alloc_size,         \* the size of one allocation
    free_memory,        \* the total free memory last queried
    cur_mem_alloc_size, \* the size requested in the current iteration
    allocResult,        \* the test's `result`
    ze_buf,             \* the buffer allocated in the loop body (0: nullptr)
    vec_ptr,            \* the buffers to free
    local_mem,          \* the host buffer
    budget,             \* history: Max(1, first free memory) minus iterations started
    successShrinks,     \* history: every iteration that returned success shrank free memory
    everyShrinks,       \* history: so did every iteration that did not return out-of-memory
    allocated,          \* history: the buffers the loop allocated, in order
    freedBufs,          \* history: the buffers handed to zeMemFree, in order
    hostFrees,          \* history: number of calls of free_memory(local_mem)
    failures            \* history: lines of the expectations that failed for this device

barrierVars == <<numDevices, devIdx, mainPc, pc, count, idx, ready, mutexOwner,
                 arrived, earlyReturn, queries, zeroSeen>>
ipcVars == <<ipcPc, shm, shared_data, hEventPool, ipcExit, ipcLog, ipcActions>>
dbgVars == <<dbgPc, options, dbgResult, device, child, debug_config, debugSession, notified,
             dbgExit, dbgLog>>
allocVars == <<allocDevIdx, allocPc, max_alloc_size, alloc_size,
               free_memory, cur_mem_alloc_size, allocResult, ze_buf, vec_ptr, local_mem,
               budget, successShrinks, everyShrinks, allocated, freedBufs,
               hostFrees, failures>>
vars == <<barrierVars, ipcVars, dbgVars, allocVars>>
\* What a step of one program leaves alone: the other programs.
notBarrierVars == <<ipcVars, dbgVars, allocVars>>
notIpcVars == <<barrierVars, dbgVars, allocVars>>
notDbgVars == <<barrierVars, ipcVars, allocVars>>
notAllocVars == <<barrierVars, ipcVars, dbgVars>>

\* ======================================================================
\* 1. Two threads, one barrier (test_sysman_memory.cpp)
\* ======================================================================
Threads == {"ras", "mem"}
Other(t) == IF t = "ras" THEN "mem" ELSE "ras"

\* Number of participants the wait predicate expects.
Participants == 2

\* The predicate with the participant count off by one: one arrival is enough.
C1_Mutant_WaitPredicate == ready >= 1

\* The lambda handed to condition_variable.wait: [] { return ready == 2; }
WaitPredicate == ready = Participants

InitBarrier ==
    /\ numDevices \in 1..MaxDevices
    /\ devIdx = 1
    /\ mainPc = "spawnRas"
    /\ pc = [t \in Threads |-> "idle"]
    /\ count = [t \in Threads |-> 0]
    /\ idx = [t \in Threads |-> 0]
    /\ ready = 0
    /\ mutexOwner = "none"
    /\ arrived = [t \in Threads |-> FALSE]
    /\ earlyReturn = [t \in Threads |-> FALSE]
    /\ queries = [t \in Threads |-> 0]
    /\ zeroSeen = FALSE

\* std::thread rasThread(getRasState, device): the first statement of an iteration.
SpawnRas ==
    /\ mainPc = "spawnRas"
    /\ pc' = [pc EXCEPT !["ras"] = "getHandles"]
    /\ arrived' = [t \in Threads |-> FALSE]
    /\ earlyReturn' = [t \in Threads |-> FALSE]
    /\ queries' = [t \in Threads |-> 0]
    /\ mainPc' = "spawnMem"
    /\ UNCHANGED <<numDevices, devIdx, count, idx, ready, mutexOwner, zeroSeen>>
    /\ UNCHANGED notBarrierVars

\* std::thread memoryThread(getMemoryState, device)
SpawnMem ==
    /\ mainPc = "spawnMem"
    /\ pc' = [pc EXCEPT !["mem"] = "getHandles"]
    /\ mainPc' = "joinRas"
    /\ UNCHANGED <<numDevices, devIdx, count, idx, ready, mutexOwner, arrived,
                   earlyReturn, queries, zeroSeen>>
    /\ UNCHANGED notBarrierVars

\* get_mem_handles / get_ras_handles, then `if (count == 0) FAIL()`: a fatal
\* failure returns from the thread function before the lock is taken.
GetHandles(t) ==
    /\ pc[t] = "getHandles"
    /\ \E c \in 0..MaxHandles :
        /\ count' = [count EXCEPT ![t] = c]
        /\ pc' = [pc EXCEPT ![t] = IF c = 0 THEN "returned" ELSE "lock"]
        /\ earlyReturn' = [earlyReturn EXCEPT ![t] = (c = 0)]
        /\ zeroSeen' = (zeroSeen \/ c = 0)
    /\ UNCHANGED <<numDevices, devIdx, mainPc, idx, ready, mutexOwner, arrived, queries>>
    /\ UNCHANGED notBarrierVars

\* std::unique_lock<std::mutex> lock(mem_mutex)
Lock(t) ==
    /\ pc[t] = "lock"
    /\ mutexOwner = "none"
    /\ mutexOwner' = t
    /\ pc' = [pc EXCEPT ![t] = "inc"]
    /\ UNCHANGED <<numDevices, devIdx, mainPc, count, idx, ready, arrived,
                   earlyReturn, queries, zeroSeen>>
    /\ UNCHANGED notBarrierVars

\* ready++ (a uint32_t; it is incremented at most twice per device, so it
\* stays far below the value at which it would wrap).
Increment(t) ==
    /\ pc[t] = "inc"
    /\ ready' = ready + 1
    /\ arrived' = [arrived EXCEPT ![t] = TRUE]
    /\ pc' = [pc EXCEPT ![t] = "notify"]
    /\ UNCHANGED <<numDevices, devIdx, mainPc, count, idx, mutexOwner,
                   earlyReturn, queries, zeroSeen>>
    /\ UNCHANGED notBarrierVars

\* The notification left out: nobody blocked in wait is woken.
C15_Mutant_NotifyAll(t) ==
    /\ pc[t] = "notify"
    /\ pc' = [pc EXCEPT ![t] = "check"]
    /\ UNCHANGED <<numDevices, devIdx, mainPc, count, idx, ready, mutexOwner,
                   arrived, earlyReturn, queries, zeroSeen>>
    /\ UNCHANGED notBarrierVars

\* condition_variable.notify_all(): every thread blocked in wait is woken and
\* must take the mutex again before it looks at the predicate.
NotifyAll(t) ==
    /\ pc[t] = "notify"
    /\ pc' = [u \in Threads |->
                IF u = t THEN "check"
                ELSE IF pc[u] = "blocked" THEN "reacquire" ELSE pc[u]]
    /\ UNCHANGED <<numDevices, devIdx, mainPc, count, idx, ready, mutexOwner,
                   arrived, earlyReturn, queries, zeroSeen>>
    /\ UNCHANGED notBarrierVars

\* A wait with a timeout (wait_for) that gives up: the thread leaves the wait
\* whatever the predicate says.
C4_Mutant_WaitCheck(t) ==
    /\ pc[t] = "check"
    /\ mutexOwner = t
    /\ pc' = [pc EXCEPT ![t] = "loop"]
    /\ idx' = [idx EXCEPT ![t] = 1]
    /\ UNCHANGED <<numDevices, devIdx, mainPc, count, ready, arrived,
                   earlyReturn, queries, zeroSeen, mutexOwner>>
    /\ UNCHANGED notBarrierVars

\* condition_variable.wait(lock, pred) is `while (!pred()) wait(lock);`: the
\* predicate is read with the mutex held; a false predicate releases the mutex
\* and blocks, a true one leaves the wait with the mutex still held.
WaitCheck(t) ==
    /\ pc[t] = "check"
    /\ mutexOwner = t
    /\ IF WaitPredicate
         THEN /\ pc' = [pc EXCEPT ![t] = "loop"]
              /\ idx' = [idx EXCEPT ![t] = 1]
              /\ UNCHANGED mutexOwner
         ELSE /\ pc' = [pc EXCEPT ![t] = "blocked"]
              /\ mutexOwner' = "none"
              /\ UNCHANGED idx
    /\ UNCHANGED <<numDevices, devIdx, mainPc, count, ready, arrived,
                   earlyReturn, queries, zeroSeen>>
    /\ UNCHANGED notBarrierVars

\* A spurious wake-up of a thread blocked in wait.
SpuriousWake(t) ==
    /\ pc[t] = "blocked"
    /\ pc' = [pc EXCEPT ![t] = "reacquire"]
    /\ UNCHANGED <<numDevices, devIdx, mainPc, count, idx, ready, mutexOwner,
                   arrived, earlyReturn, queries, zeroSeen>>
    /\ UNCHANGED notBarrierVars

\* A woken thread takes mem_mutex again inside wait.
Reacquire(t) ==
    /\ pc[t] = "reacquire"
    /\ mutexOwner = "none"
    /\ mutexOwner' = t
    /\ pc' = [pc EXCEPT ![t] = "check"]
    /\ UNCHANGED <<numDevices, devIdx, mainPc, count, idx, ready, arrived,
                   earlyReturn, queries, zeroSeen>>
    /\ UNCHANGED notBarrierVars

\* One iteration of the handle loop: ASSERT_NE(nullptr, handle), which returns
\* from the thread function on a null handle, then the driver query.  The
\* unique_lock is destroyed, and the mutex released, only when the function returns.
QueryStep(t) ==
    /\ pc[t] = "loop"
    /\ idx[t] <= count[t]
    /\ \E nonNull \in BOOLEAN :
        IF nonNull
          THEN /\ queries' = [queries EXCEPT ![t] = @ + 1]
               /\ idx' = [idx EXCEPT ![t] = @ + 1]
               /\ UNCHANGED <<pc, mutexOwner>>
          ELSE /\ pc' = [pc EXCEPT ![t] = "returned"]
               /\ mutexOwner' = "none"
               /\ UNCHANGED <<queries, idx>>
    /\ UNCHANGED <<numDevices, devIdx, mainPc, count, ready, arrived,
                   earlyReturn, zeroSeen>>
    /\ UNCHANGED notBarrierVars

\* The handle loop is over: the function returns and `lock` goes out of scope.
LoopExit(t) ==
    /\ pc[t] = "loop"
    /\ idx[t] > count[t]
    /\ pc' = [pc EXCEPT ![t] = "returned"]
    /\ mutexOwner' = "none"
    /\ UNCHANGED <<numDevices, devIdx, mainPc, count, idx, ready, arrived,
                   earlyReturn, queries, zeroSeen>>
    /\ UNCHANGED notBarrierVars

\* rasThread.join()
JoinRas ==
    /\ mainPc = "joinRas"
    /\ pc["ras"] = "returned"
    /\ pc' = [pc EXCEPT !["ras"] = "joined"]
    /\ mainPc' = "joinMem"
    /\ UNCHANGED <<numDevices, devIdx, count, idx, ready, mutexOwner, arrived,
                   earlyReturn, queries, zeroSeen>>
    /\ UNCHANGED notBarrierVars

\* memoryThread.join(), then the next device of the range-for (or its end).
\* `ready` is a namespace-scope variable: nothing resets it between devices.
JoinMem ==
    /\ mainPc = "joinMem"
    /\ pc["mem"] = "returned"
    /\ pc' = [pc EXCEPT !["mem"] = "joined"]
    /\ devIdx' = devIdx + 1
    /\ mainPc' = IF devIdx + 1 <= numDevices THEN "spawnRas" ELSE "done"
    /\ UNCHANGED <<numDevices, count, idx, ready, mutexOwner, arrived,
                   earlyReturn, queries, zeroSeen>>
    /\ UNCHANGED notBarrierVars

\* Steps of a thread that the scheduler and the library guarantee to happen
\* (everything but a spurious wake-up).
ThreadProgress(t) ==
    \/ GetHandles(t) \/ Lock(t) \/ Increment(t) \/ NotifyAll(t) \/ WaitCheck(t)
    \/ Reacquire(t) \/ QueryStep(t) \/ LoopExit(t)

MainStep == SpawnRas \/ SpawnMem \/ JoinRas \/ JoinMem

NextBarrier ==
    \/ MainStep
    \/ \E t \in Threads : ThreadProgress(t) \/ SpuriousWake(t)

\* Nothing of the two-thread test moves while another program is looked at.
IdleBarrier ==
    /\ numDevices = 1
    /\ devIdx = 1
    /\ mainPc = "spawnRas"
    /\ pc = [t \in Threads |-> "idle"]
    /\ count = [t \in Threads |-> 0]
    /\ idx = [t \in Threads |-> 0]
    /\ ready = 0
    /\ mutexOwner = "none"
    /\ arrived = [t \in Threads |-> FALSE]
    /\ earlyReturn = [t \in Threads |-> FALSE]
    /\ queries = [t \in Threads |-> 0]
    /\ zeroSeen = FALSE

\* ======================================================================
\* 2. The IPC event child process (main of the IPC event helper)
\* ======================================================================
\* The exit status of a process that has not ended: no value exit() produces.
NoExit == 0 - 1

\* The selectors of shared_data_t::child_type, and values outside the enum.
DefinedChildTypes == {"CHILD_TEST_HOST_READS", "CHILD_TEST_DEVICE_READS",
                      "CHILD_TEST_DEVICE2_READS", "CHILD_TEST_MULTI_DEVICE_READS"}
ChildTypes == DefinedChildTypes \cup {"UNDEFINED_A", "UNDEFINED_B"}

\* IPC handles the parent may have stored, and what the driver may open them to.
IpcHandles == {"ipcA", "ipcB"}
NullPool == "null"
Uninitialized == "uninitialized"
\* The event pool an IPC handle stands for, named after the handle.
PoolOf(ipcHandle) == ipcHandle

\* The function each statement of the switch body calls.
ActionOf(label) ==
    CASE label = "CHILD_TEST_HOST_READS" -> "child_host_reads"
      [] label = "CHILD_TEST_DEVICE_READS" -> "child_device_reads"
      [] label = "CHILD_TEST_DEVICE2_READS" -> "child_device2_reads"
      [] label = "CHILD_TEST_MULTI_DEVICE_READS" -> "child_multi_device_reads"
      [] OTHER -> "none"

\* The case labels of `switch (shared_data.child_type)`.  The four selector
\* names in the switch body are written without `case`, which makes them
\* ordinary (goto) labels: the switch has no case label, only `default`.
CaseLabels == {}

\* A switch whose `default` label sits on the first statement of the body.
C16_Mutant_SwitchTarget(child_type) ==
    IF child_type \in CaseLabels THEN child_type ELSE "CHILD_TEST_HOST_READS"

\* Where the switch jumps for a value of child_type.
SwitchTarget(child_type) ==
    IF child_type \in CaseLabels THEN child_type ELSE "default"

\* The null check left out.
C6_Mutant_PoolIsNull(h) == FALSE

\* `if (!hEventPool)`
PoolIsNull(h) == h = NullPool

\* `if (zeInit(ZE_INIT_FLAG_NONE) != ZE_RESULT_SUCCESS)`
IpcInitFailed(result) == result # "ZE_RESULT_SUCCESS"

ZeResults == {"ZE_RESULT_SUCCESS", "ZE_RESULT_ERROR_UNINITIALIZED"}

\* The parent has written the record before it launches the child.
InitIpc ==
    /\ ipcPc = "zeInit"
    /\ shm \in [hIpcEventPool : IpcHandles, child_type : ChildTypes]
    /\ shared_data = [hIpcEventPool |-> Uninitialized, child_type |-> Uninitialized]
    /\ hEventPool = Uninitialized
    /\ ipcExit = NoExit
    /\ ipcLog = <<>>
    /\ ipcActions = <<>>

IdleIpc ==
    /\ ipcPc = "zeInit"
    /\ shm = [hIpcEventPool |-> "ipcA", child_type |-> "CHILD_TEST_HOST_READS"]
    /\ shared_data = [hIpcEventPool |-> Uninitialized, child_type |-> Uninitialized]
    /\ hEventPool = Uninitialized
    /\ ipcExit = NoExit
    /\ ipcLog = <<>>
    /\ ipcActions = <<>>

\* zeInit, and exit(1) when it does not succeed.
IpcZeInit ==
    /\ ipcPc = "zeInit"
    /\ \E result \in ZeResults :
        IF IpcInitFailed(result)
          THEN /\ ipcPc' = "exited"
               /\ ipcExit' = 1
               /\ ipcLog' = Append(ipcLog, "zeInit_failed")
          ELSE /\ ipcPc' = "shmOpen"
               /\ ipcExit' = ipcExit
               /\ ipcLog' = Append(ipcLog, "zeInit")
    /\ UNCHANGED <<shm, shared_data, hEventPool, ipcActions>>
    /\ UNCHANGED notIpcVars

\* bipc::shared_memory_object shm(open_only, "ipc_event_test", read_write)
IpcShmOpen ==
    /\ ipcPc = "shmOpen"
    /\ ipcPc' = "truncate"
    /\ ipcLog' = Append(ipcLog, "shm_open")
    /\ UNCHANGED <<shm, shared_data, hEventPool, ipcExit, ipcActions>>
    /\ UNCHANGED notIpcVars

\* shm.truncate(sizeof(shared_data_t)): the segment keeps the size the record
\* has, and its contents.
IpcTruncate ==
    /\ ipcPc = "truncate"
    /\ ipcPc' = "map"
    /\ ipcLog' = Append(ipcLog, "truncate")
    /\ UNCHANGED <<shm, shared_data, hEventPool, ipcExit, ipcActions>>
    /\ UNCHANGED notIpcVars

\* bipc::mapped_region region(shm, bipc::read_only)
IpcMap ==
    /\ ipcPc = "map"
    /\ ipcPc' = "memcpy"
    /\ ipcLog' = Append(ipcLog, "map_read_only")
    /\ UNCHANGED <<shm, shared_data, hEventPool, ipcExit, ipcActions>>
    /\ UNCHANGED notIpcVars

\* A copy of the wrong size: only the first member of the record is copied.
C13_Mutant_IpcMemcpy ==
    /\ ipcPc = "memcpy"
    /\ shared_data' = [shared_data EXCEPT !.hIpcEventPool = shm.hIpcEventPool]
    /\ hEventPool' = NullPool
    /\ ipcPc' = "openHandle"
    /\ ipcLog' = Append(ipcLog, "memcpy")
    /\ UNCHANGED <<shm, ipcExit, ipcActions>>
    /\ UNCHANGED notIpcVars

\* std::memcpy(&shared_data, region.get_address(), sizeof(shared_data_t)),
\* then `ze_event_pool_handle_t hEventPool = 0`.
IpcMemcpy ==
    /\ ipcPc = "memcpy"
    /\ shared_data' = shm
    /\ hEventPool' = NullPool
    /\ ipcPc' = "openHandle"
    /\ ipcLog' = Append(ipcLog, "memcpy")
    /\ UNCHANGED <<shm, ipcExit, ipcActions>>
    /\ UNCHANGED notIpcVars

\* lzt::open_ipc_event_handle(shared_data.hIpcEventPool, &hEventPool): the
\* driver either stores a pool handle for the IPC handle or leaves it null.
IpcOpenHandle ==
    /\ ipcPc = "openHandle"
    /\ \E opened \in BOOLEAN :
        hEventPool' = IF opened THEN PoolOf(shared_data.hIpcEventPool)
                      ELSE NullPool
    /\ ipcPc' = "nullCheck"
    /\ ipcLog' = Append(ipcLog, "open_ipc_event_handle")
    /\ UNCHANGED <<shm, shared_data, ipcExit, ipcActions>>
    /\ UNCHANGED notIpcVars

\* `if (!hEventPool) exit(1);`
IpcNullCheck ==
    /\ ipcPc = "nullCheck"
    /\ IF PoolIsNull(hEventPool)
         THEN /\ ipcPc' = "exited"
              /\ ipcExit' = 1
         ELSE /\ ipcPc' = "switch"
              /\ ipcExit' = ipcExit
    /\ UNCHANGED <<shm, shared_data, hEventPool, ipcLog, ipcActions>>
    /\ UNCHANGED notIpcVars

\* The switch statement and what follows it: `default: exit(1)`, or the
\* statements of the label jumped to up to `break`, then
\* close_ipc_event_handle(hEventPool) and exit(0).
IpcSwitch ==
    /\ ipcPc = "switch"
    /\ LET target == SwitchTarget(shared_data.child_type) IN
        IF target = "default"
          THEN /\ ipcExit' = 1
               /\ ipcLog' = Append(ipcLog, "switch_default")
               /\ UNCHANGED ipcActions
          ELSE /\ ipcActions' = Append(ipcActions, ActionOf(target))
               /\ ipcLog' = ipcLog \o <<"switch_case", "close_ipc_event_handle">>
               /\ ipcExit' = 0
    /\ ipcPc' = "exited"
    /\ UNCHANGED <<shm, shared_data, hEventPool>>
    /\ UNCHANGED notIpcVars

NextIpc ==
    \/ IpcZeInit \/ IpcShmOpen \/ IpcTruncate \/ IpcMap \/ IpcMemcpy
    \/ IpcOpenHandle \/ IpcNullCheck \/ IpcSwitch

\* ======================================================================
\* 3. The child debugger process (child_debugger.cpp)
\* ======================================================================
NullDevice == "nullDevice"
NullSession == [attached |-> FALSE, pid |-> 0]
NoChild == [state |-> "none", pid |-> 0, exit_code |-> NoExit]
\* Process ids the launcher may hand out.
Pids == {101, 102}

\* The device check left out.
C10_Mutant_DeviceMissing(d) == FALSE
\* The session check left out.
C7_Mutant_AttachFailed(session) == FALSE

\* `if (result != ZE_RESULT_SUCCESS)` after zeInit(0)
DbgInitFailed(result) == result # "ZE_RESULT_SUCCESS"

\* `if (device) ... else`
DeviceMissing(d) == d = NullDevice

\* `if (!debugSession)`
AttachFailed(session) == session = NullSession

InitDbg ==
    /\ dbgPc = "parse"
    /\ options = [index_in |-> 0, use_sub_devices |-> FALSE]
    /\ dbgResult = Uninitialized
    /\ device = NullDevice
    /\ child = NoChild
    /\ debug_config = [pid |-> 0]
    /\ debugSession = NullSession
    /\ notified = FALSE
    /\ dbgExit = NoExit
    /\ dbgLog = <<>>

IdleDbg == InitDbg

\* options.parse_options(argc, argv) and `process_synchro synchro(true, true, index)`
DbgParse ==
    /\ dbgPc = "parse"
    /\ \E i \in 0..MaxIndex, sub \in BOOLEAN :
        options' = [index_in |-> i, use_sub_devices |-> sub]
    /\ dbgPc' = "zeInit"
    /\ UNCHANGED <<dbgResult, device, child, debug_config, debugSession, notified,
                   dbgExit, dbgLog>>
    /\ UNCHANGED notDbgVars

\* zeInit(0), and exit(1) when it does not succeed.
DbgZeInit ==
    /\ dbgPc = "zeInit"
    /\ \E result \in ZeResults :
        /\ dbgResult' = result
        /\ IF DbgInitFailed(result)
          THEN /\ dbgPc' = "exited"
               /\ dbgExit' = 1
               /\ dbgLog' = Append(dbgLog, "zeInit_failed")
          ELSE /\ dbgPc' = "findDevice"
               /\ dbgExit' = dbgExit
               /\ dbgLog' = Append(dbgLog, "zeInit")
    /\ UNCHANGED <<options, device, child, debug_config, debugSession, notified>>
    /\ UNCHANGED notDbgVars

\* lzt::find_device(driver, device id, use_sub_devices)
DbgFindDevice ==
    /\ dbgPc = "findDevice"
    /\ \E d \in {NullDevice, "device"} : device' = d
    /\ dbgPc' = "deviceCheck"
    /\ UNCHANGED <<options, dbgResult, child, debug_config, debugSession, notified, dbgExit, dbgLog>>
    /\ UNCHANGED notDbgVars

\* `if (device) {...} else { LOG_ERROR; exit(1); }`
DbgDeviceCheck ==
    /\ dbgPc = "deviceCheck"
    /\ IF DeviceMissing(device)
         THEN /\ dbgPc' = "exited"
              /\ dbgExit' = 1
              /\ dbgLog' = Append(dbgLog, "device_not_found")
         ELSE /\ dbgPc' = "launch"
              /\ dbgExit' = dbgExit
              /\ dbgLog' = Append(dbgLog, "device_found")
    /\ UNCHANGED <<options, dbgResult, device, child, debug_config, debugSession, notified>>
    /\ UNCHANGED notDbgVars

\* launcher.launch_process(BASIC, device, use_sub_devices, "", index), then
\* debug_config.pid = debug_helper.id()
DbgLaunch ==
    /\ dbgPc = "launch"
    /\ \E p \in Pids :
        /\ child' = [state |-> "waiting", pid |-> p, exit_code |-> NoExit]
        /\ debug_config' = [pid |-> p]
    /\ dbgPc' = "attach"
    /\ dbgLog' = Append(dbgLog, "launch")
    /\ UNCHANGED <<options, dbgResult, device, debugSession, notified, dbgExit>>
    /\ UNCHANGED notDbgVars

\* lzt::debug_attach(device, debug_config): a session on the process of
\* debug_config.pid, or null.
DbgAttach ==
    /\ dbgPc = "attach"
    /\ \E ok \in BOOLEAN :
        /\ debugSession' = IF ok THEN [attached |-> TRUE, pid |-> debug_config.pid]
                               ELSE NullSession
        /\ dbgLog' = Append(dbgLog, IF ok THEN "attach" ELSE "attach_failed")
    /\ dbgPc' = "attachCheck"
    /\ UNCHANGED <<options, dbgResult, device, child, debug_config, notified, dbgExit>>
    /\ UNCHANGED notDbgVars

\* A failed attach is tried again instead of ending the process.
C8_Mutant_DbgAttachCheck ==
    /\ dbgPc = "attachCheck"
    /\ dbgPc' = IF AttachFailed(debugSession) THEN "attach" ELSE "notify"
    /\ UNCHANGED <<options, dbgResult, device, child, debug_config, debugSession, notified,
                   dbgExit, dbgLog>>
    /\ UNCHANGED notDbgVars

\* `if (!debugSession) { LOG_ERROR; exit(1); }`
DbgAttachCheck ==
    /\ dbgPc = "attachCheck"
    /\ IF AttachFailed(debugSession)
         THEN /\ dbgPc' = "exited"
              /\ dbgExit' = 1
         ELSE /\ dbgPc' = "notify"
              /\ dbgExit' = dbgExit
    /\ UNCHANGED <<options, dbgResult, device, child, debug_config, debugSession, notified, dbgLog>>
    /\ UNCHANGED notDbgVars

\* synchro.notify_application()
DbgNotify ==
    /\ dbgPc = "notify"
    /\ notified' = TRUE
    /\ dbgLog' = Append(dbgLog, "notify")
    /\ dbgPc' = "wait"
    /\ UNCHANGED <<options, dbgResult, device, child, debug_config, debugSession, dbgExit>>
    /\ UNCHANGED notDbgVars

\* The wait does not block: it returns while the child is still running.
C9_Mutant_DbgWait ==
    /\ dbgPc = "wait"
    /\ dbgLog' = Append(dbgLog, "wait_returned")
    /\ dbgPc' = "detach"
    /\ UNCHANGED <<options, dbgResult, device, child, debug_config, debugSession, notified, dbgExit>>
    /\ UNCHANGED notDbgVars

\* debug_helper.wait(): returns once the child has exited.
DbgWait ==
    /\ dbgPc = "wait"
    /\ child.state = "exited"
    /\ dbgLog' = Append(dbgLog, "wait_returned")
    /\ dbgPc' = "detach"
    /\ UNCHANGED <<options, dbgResult, device, child, debug_config, debugSession, notified, dbgExit>>
    /\ UNCHANGED notDbgVars

\* lzt::debug_detach(debugSession)
DbgDetach ==
    /\ dbgPc = "detach"
    /\ dbgLog' = Append(dbgLog, "detach")
    /\ dbgPc' = "exit"
    /\ UNCHANGED <<options, dbgResult, device, child, debug_config, debugSession, notified, dbgExit>>
    /\ UNCHANGED notDbgVars

\* The child's status reduced to pass or fail.
C14_Mutant_ExitStatus(code) == IF code = 0 THEN 0 ELSE 1

\* The status a process that calls exit(code) ends with: the low eight bits.
ExitStatus(code) == code % 256

\* exit(debug_helper.exit_code())
DbgExit ==
    /\ dbgPc = "exit"
    /\ dbgExit' = ExitStatus(child.exit_code)
    /\ dbgLog' = Append(dbgLog, "exit")
    /\ dbgPc' = "exited"
    /\ UNCHANGED <<options, dbgResult, device, child, debug_config, debugSession, notified>>
    /\ UNCHANGED notDbgVars

\* The child application, seen from the debugger: it blocks until it is
\* notified, then runs.
ChildProceed ==
    /\ child.state = "waiting"
    /\ notified
    /\ child' = [child EXCEPT !.state = "running"]
    /\ UNCHANGED <<dbgPc, options, dbgResult, device, debug_config, debugSession, notified,
                   dbgExit, dbgLog>>
    /\ UNCHANGED notDbgVars

\* The child application ends, by itself or killed, with some exit code.
ChildExit ==
    /\ child.state \in {"waiting", "running"}
    /\ \E code \in 0..MaxChildExit :
        child' = [child EXCEPT !.state = "exited", !.exit_code = code]
    /\ UNCHANGED <<dbgPc, options, dbgResult, device, debug_config, debugSession, notified,
                   dbgExit, dbgLog>>
    /\ UNCHANGED notDbgVars

NextDbg ==
    \/ DbgParse \/ DbgZeInit \/ DbgFindDevice \/ DbgDeviceCheck \/ DbgLaunch
    \/ DbgAttach \/ DbgAttachCheck \/ DbgNotify \/ DbgWait \/ DbgDetach \/ DbgExit
    \/ ChildProceed \/ ChildExit

\* ======================================================================
\* 4. The allocate-until-out-of-memory test (test_sysman_memory.cpp)
\* ======================================================================
\* Sizes are counted in units of 2 GiB.  (uint64_t)4 * 1024 * 1024 * 1024 is
\* two units:
FourGiB == 2

\* What zeContextMakeMemoryResident may return.
ResidentResults == {"ZE_RESULT_SUCCESS", "ZE_RESULT_ERROR_OUT_OF_DEVICE_MEMORY",
                    "ZE_RESULT_ERROR_DEVICE_LOST"}

\* Lines of the test's expectations.
ExpectHostMem == 296
ExpectHostResident == 300
ExpectDeviceMem == 311
ExpectOutOfMemory == 325

RECURSIVE SumFree(_)
\* The loop of get_free_memory_state: total_free_memory += state.free over the
\* memory modules of the device.
SumFree(frees) == IF frees = <<>> THEN 0 ELSE Head(frees) + SumFree(Tail(frees))

\* The free sizes the memory modules of a device may report at one query.
ModuleStates == UNION {[1..n -> 0..MaxModuleFree] : n \in 0..MaxHandles}

\* The totals get_free_memory_state may return.
FreeTotals == {SumFree(frees) : frees \in ModuleStates}

\* The clamp that takes the larger of the two sizes.
C18_Mutant_CurAllocSize(alloc, free) == IF alloc >= free THEN alloc ELSE free

\* alloc_size = 4 GiB; if (max_alloc_size < alloc_size) alloc_size = max_alloc_size;
AllocSizeFor(max) == IF max < FourGiB THEN max ELSE FourGiB

\* if (alloc_size <= free_memory) cur = alloc_size; else cur = free_memory;
CurAllocSize(alloc, free) == IF alloc <= free THEN alloc ELSE free

\* A loop that goes on only after a success.
C11_Mutant_LoopContinues(res, free) == res = "ZE_RESULT_SUCCESS" /\ free > 0
\* A loop that goes on while the free memory is not negative.
C17_Mutant_LoopContinues(res, free) ==
    res # "ZE_RESULT_ERROR_OUT_OF_DEVICE_MEMORY" /\ free >= 0

\* while ((result != ZE_RESULT_ERROR_OUT_OF_DEVICE_MEMORY) && (free_memory > 0))
LoopContinues(res, free) == res # "ZE_RESULT_ERROR_OUT_OF_DEVICE_MEMORY" /\ free > 0

\* An expectation that accepts success as well.
C12_Mutant_OutOfMemoryExpectationFails(res) ==
    res \notin {"ZE_RESULT_ERROR_OUT_OF_DEVICE_MEMORY", "ZE_RESULT_SUCCESS"}

\* EXPECT_EQ(ZE_RESULT_ERROR_OUT_OF_DEVICE_MEMORY, result) fails.
OutOfMemoryExpectationFails(res) == res # "ZE_RESULT_ERROR_OUT_OF_DEVICE_MEMORY"

\* The locals of one iteration of the range-for over `devices`, as declared.
DeviceLocals ==
    /\ max_alloc_size = 0
    /\ alloc_size = FourGiB
    /\ free_memory = 0
    /\ cur_mem_alloc_size = 0
    /\ allocResult = "ZE_RESULT_SUCCESS"
    /\ ze_buf = 0
    /\ vec_ptr = <<>>
    /\ local_mem = "none"
    /\ budget = 1
    /\ successShrinks = TRUE
    /\ everyShrinks = TRUE
    /\ allocated = <<>>
    /\ freedBufs = <<>>
    /\ hostFrees = 0
    /\ failures = {}

\* The fixture's `devices` list has at least one device.
InitAlloc ==
    /\ allocDevIdx = 1
    /\ allocPc = "properties"
    /\ DeviceLocals

IdleAlloc ==
    /\ allocDevIdx = 1
    /\ allocPc = "properties"
    /\ DeviceLocals

\* zeDeviceGetProperties, then the size of one allocation.
AllocProperties ==
    /\ allocPc = "properties"
    /\ \E m \in 0..MaxAllocSize :
        /\ max_alloc_size' = m
        /\ alloc_size' = AllocSizeFor(m)
    /\ allocPc' = "queryFree"
    /\ UNCHANGED <<allocDevIdx, free_memory, cur_mem_alloc_size,
                   allocResult, ze_buf, vec_ptr, local_mem, budget,
                   successShrinks, everyShrinks, allocated, freedBufs, hostFrees,
                   failures>>
    /\ UNCHANGED notAllocVars

\* uint64_t free_memory = get_free_memory_state(device)
AllocQueryFree ==
    /\ allocPc = "queryFree"
    /\ \E free \in FreeTotals :
        /\ free_memory' = free
        /\ budget' = IF free > 1 THEN free ELSE 1
    /\ allocPc' = "hostAlloc"
    /\ UNCHANGED <<allocDevIdx, max_alloc_size, alloc_size,
                   cur_mem_alloc_size, allocResult, ze_buf, vec_ptr, local_mem,
                   successShrinks, everyShrinks, allocated, freedBufs,
                   hostFrees, failures>>
    /\ UNCHANGED notAllocVars

\* allocate_host_memory(alloc_size), EXPECT_NE(nullptr, local_mem), and
\* memset(local_mem, pattern, alloc_size).  A memset of a non-zero size
\* through a null pointer is undefined: the process crashes or goes on.
AllocHost ==
    /\ allocPc = "hostAlloc"
    /\ \E got \in BOOLEAN, crash \in BOOLEAN :
        /\ crash => (~got /\ alloc_size > 0)
        /\ local_mem' = IF got THEN "allocated" ELSE "null"
        /\ failures' = IF got THEN failures ELSE failures \cup {ExpectHostMem}
        /\ allocPc' = IF crash THEN "crashed" ELSE "hostResident"
    /\ UNCHANGED <<allocDevIdx, max_alloc_size, alloc_size, free_memory,
                   cur_mem_alloc_size, allocResult, ze_buf, vec_ptr, budget,
                   successShrinks, everyShrinks, allocated, freedBufs, hostFrees>>
    /\ UNCHANGED notAllocVars

\* result = zeContextMakeMemoryResident(..., local_mem, alloc_size);
\* EXPECT_EQ(result, ZE_RESULT_SUCCESS);
AllocHostResident ==
    /\ allocPc = "hostResident"
    /\ \E res \in ResidentResults :
        /\ allocResult' = res
        /\ failures' = IF res = "ZE_RESULT_SUCCESS" THEN failures
                       ELSE failures \cup {ExpectHostResident}
    /\ allocPc' = "loopBody"
    /\ UNCHANGED <<allocDevIdx, max_alloc_size, alloc_size, free_memory,
                   cur_mem_alloc_size, ze_buf, vec_ptr, local_mem, budget,
                   successShrinks, everyShrinks, allocated, freedBufs, hostFrees>>
    /\ UNCHANGED notAllocVars

\* The first half of the loop body: the size of this iteration's request,
\* allocate_device_memory, EXPECT_NE(nullptr, ze_buf), and either the
\* push_back and zeContextMakeMemoryResident or the `break`.
AllocIteration ==
    /\ allocPc = "loopBody"
    /\ budget > 0 - MaxExtraIterations
    /\ budget' = budget - 1
    /\ cur_mem_alloc_size' = CurAllocSize(alloc_size, free_memory)
    /\ \E got \in BOOLEAN :
        IF got
          THEN /\ ze_buf' = Len(vec_ptr) + 1
               /\ vec_ptr' = Append(vec_ptr, Len(vec_ptr) + 1)
               /\ allocated' = Append(allocated, Len(vec_ptr) + 1)
               /\ \E res \in ResidentResults : allocResult' = res
               /\ allocPc' = "loopQuery"
               /\ UNCHANGED failures
          ELSE /\ ze_buf' = 0
               /\ failures' = failures \cup {ExpectDeviceMem}
               /\ allocPc' = "expect"
               /\ UNCHANGED <<vec_ptr, allocated, allocResult>>
    /\ UNCHANGED <<allocDevIdx, max_alloc_size, alloc_size, free_memory,
                   local_mem, successShrinks, everyShrinks, freedBufs,
                   hostFrees>>
    /\ UNCHANGED notAllocVars

\* The second half: free_memory = get_free_memory_state(device), and the
\* condition of the do-while.
AllocLoopQuery ==
    /\ allocPc = "loopQuery"
    /\ \E free \in FreeTotals :
        /\ free_memory' = free
        /\ successShrinks' = (successShrinks /\
              (allocResult = "ZE_RESULT_SUCCESS" => free < free_memory))
        /\ everyShrinks' = (everyShrinks /\
              (allocResult # "ZE_RESULT_ERROR_OUT_OF_DEVICE_MEMORY" => free < free_memory))
        /\ allocPc' = IF LoopContinues(allocResult, free) THEN "loopBody" ELSE "expect"
    /\ UNCHANGED <<allocDevIdx, max_alloc_size, alloc_size,
                   cur_mem_alloc_size, allocResult, ze_buf, vec_ptr, local_mem,
                   budget, allocated, freedBufs, hostFrees, failures>>
    /\ UNCHANGED notAllocVars

\* EXPECT_EQ(ZE_RESULT_ERROR_OUT_OF_DEVICE_MEMORY, result)
AllocExpect ==
    /\ allocPc = "expect"
    /\ failures' = IF OutOfMemoryExpectationFails(allocResult)
                   THEN failures \cup {ExpectOutOfMemory} ELSE failures
    /\ allocPc' = "cleanup"
    /\ UNCHANGED <<allocDevIdx, max_alloc_size, alloc_size, free_memory,
                   cur_mem_alloc_size, allocResult, ze_buf, vec_ptr, local_mem, budget,
                   successShrinks, everyShrinks, allocated, freedBufs, hostFrees>>
    /\ UNCHANGED notAllocVars

\* A loop that starts at i = 1: the first buffer is never freed.
C20_Mutant_BuffersFreed(vec) == [i \in 1..(Len(vec) - 1) |-> vec[i + 1]]

\* for (int i = 0; i < vec_ptr.size(); i++) zeMemFree(context, vec_ptr[i]);
\* the buffers handed to zeMemFree, in the order of the calls.
BuffersFreed(vec) == [i \in 1..Len(vec) |-> vec[i]]

\* The loop that frees the device buffers, vec_ptr.clear() and
\* lzt::free_memory(local_mem).
AllocCleanup ==
    /\ allocPc = "cleanup"
    /\ freedBufs' = freedBufs \o BuffersFreed(vec_ptr)
    /\ vec_ptr' = <<>>
    /\ local_mem' = "freed"
    /\ hostFrees' = hostFrees + 1
    /\ allocPc' = "deviceDone"
    /\ UNCHANGED <<allocDevIdx, max_alloc_size, alloc_size, free_memory,
                   cur_mem_alloc_size, allocResult, ze_buf, budget,
                   successShrinks, everyShrinks, allocated, failures>>
    /\ UNCHANGED notAllocVars

\* The end of an iteration of the range-for over `devices`: its locals go out
\* of scope, and the loop goes on with the next device, declaring them afresh,
\* or ends.
AllocNextDevice ==
    /\ allocPc = "deviceDone"
    /\ \E more \in BOOLEAN :
        /\ more => allocDevIdx < MaxDevices
        /\ allocPc' = IF more THEN "properties" ELSE "done"
    /\ allocDevIdx' = allocDevIdx + 1
    /\ max_alloc_size' = 0
    /\ alloc_size' = FourGiB
    /\ free_memory' = 0
    /\ cur_mem_alloc_size' = 0
    /\ allocResult' = "ZE_RESULT_SUCCESS"
    /\ ze_buf' = 0
    /\ vec_ptr' = <<>>
    /\ local_mem' = "none"
    /\ budget' = 1
    /\ successShrinks' = TRUE
    /\ everyShrinks' = TRUE
    /\ allocated' = <<>>
    /\ freedBufs' = <<>>
    /\ hostFrees' = 0
    /\ failures' = {}
    /\ UNCHANGED notAllocVars

NextAlloc ==
    \/ AllocProperties \/ AllocQueryFree \/ AllocHost \/ AllocHostResident
    \/ AllocIteration \/ AllocLoopQuery \/ AllocExpect \/ AllocCleanup
    \/ AllocNextDevice

\* ======================================================================
\* Specifications
\* ======================================================================
\* The two-thread test.
BarrierStart == InitBarrier /\ IdleIpc /\ IdleDbg /\ IdleAlloc
SpecBarrier == BarrierStart /\ [][NextBarrier]_vars

\* The two-thread test with the scheduling the platform gives: the test body
\* and each thread keep taking the steps they can take, and a thread that can
\* take the mutex again and again gets it.  Spurious wake-ups may or may not
\* happen.
FairSpecBarrier ==
    /\ SpecBarrier
    /\ WF_vars(MainStep)
    /\ \A t \in Threads : SF_vars(ThreadProgress(t))

\* The IPC event child.
IpcStart == IdleBarrier /\ InitIpc /\ IdleDbg /\ IdleAlloc
SpecIpc == IpcStart /\ [][NextIpc]_vars

\* The child debugger.
DbgStart == IdleBarrier /\ IdleIpc /\ InitDbg /\ IdleAlloc
SpecDbg == DbgStart /\ [][NextDbg]_vars

\* The allocate-until-out-of-memory test.
AllocStart == IdleBarrier /\ IdleIpc /\ IdleDbg /\ InitAlloc
SpecAlloc == AllocStart /\ [][NextAlloc]_vars

Spec == SpecBarrier

\* ======================================================================
\* Properties
\* ======================================================================
Contains(seq, e) == \E i \in 1..Len(seq) : seq[i] = e
Occurrences(seq, e) == Cardinality({i \in 1..Len(seq) : seq[i] = e})
IsPrefix(s, t) == Len(s) <= Len(t) /\ \A i \in 1..Len(s) : s[i] = t[i]
Last(seq) == seq[Len(seq)]

\* A thread is past the wait, in the loop that queries the driver.
InQueryLoop(t) == pc[t] = "loop"

\* C1: a thread is in its post-barrier query loop, or has made a driver query,
\* only in states where `ready` is at least the participant count 2 and both
\* threads have incremented `ready` for the current device.
C1_QueryOnlyAfterBothArrived ==
    \A t \in Threads :
        (InQueryLoop(t) \/ queries[t] > 0) =>
            (ready >= Participants /\ \A u \in Threads : arrived[u])

\* C1 witness: a thread has passed the barrier and made a driver query.
C1_Witness == \E t \in Threads : InQueryLoop(t) /\ queries[t] > 0

\* C2 (as claimed): the query sections can overlap, that is, whenever one
\* thread is inside its query loop and the other has been woken with the
\* barrier predicate true, the other can go on into its own query loop.
C2_QuerySectionsCanOverlap ==
    \A t \in Threads :
        (InQueryLoop(t) /\ pc[Other(t)] = "reacquire" /\ WaitPredicate)
            => ENABLED Reacquire(Other(t))

\* C2 (what the code does): the two threads are never inside their query
\* loops at the same time, because a thread holds mem_mutex from the wait
\* until it returns.
C2_QuerySectionsSerialized ==
    /\ ~(InQueryLoop("ras") /\ InQueryLoop("mem"))
    /\ \A t \in Threads : InQueryLoop(t) => mutexOwner = t

\* C3 (as claimed): when no handle enumeration returns a zero count, the test
\* body gets through both joins of every device and ends.
C3_TestTerminates == <>(mainPc = "done" \/ zeroSeen)

\* C3 (what the code does for one device): with a single device the test ends.
C3_SingleDeviceTerminates == (numDevices = 1) => <>(mainPc = "done" \/ zeroSeen)

\* C4: once one thread has returned before the barrier and the other has
\* arrived at it, the other is inside the wait with the predicate false, in
\* every later state: it never enters its query loop, never returns and is
\* never joined, and the test body stays at a join.
C4_PeerWaitsForever ==
    \A t \in Threads :
        (earlyReturn[t] /\ arrived[Other(t)]) =>
            /\ pc[Other(t)] \in {"notify", "check", "blocked", "reacquire"}
            /\ queries[Other(t)] = 0
            /\ mainPc \in {"joinRas", "joinMem"}

\* C4 witness: one thread returned early, the other is blocked in the wait
\* and the test body is waiting to join it.
C4_Witness ==
    \E t \in Threads :
        /\ earlyReturn[t] /\ pc[Other(t)] = "blocked"
        /\ mainPc = (IF t = "ras" THEN "joinMem" ELSE "joinRas")

\* C5 (as claimed): a child that opened the handle and whose child_type is
\* one of the four selectors has, when it ends, run exactly the matching
\* action, closed the IPC handle and exited with status 0.
C5_RunsMatchingAction ==
    (/\ ipcPc = "exited"
     /\ Contains(ipcLog, "open_ipc_event_handle")
     /\ hEventPool # NullPool
     /\ shared_data.child_type \in DefinedChildTypes)
        => /\ ipcActions = <<ActionOf(shared_data.child_type)>>
           /\ Last(ipcLog) = "close_ipc_event_handle"
           /\ ipcExit = 0

\* C6: once the open call has left hEventPool null, the child does nothing
\* but the null check and the exit: it never reaches the switch, runs none of
\* the child actions, and its exit status is non-zero.
C6_NullPoolExitsAtOnce ==
    (Contains(ipcLog, "open_ipc_event_handle") /\ hEventPool = NullPool)
        => /\ ipcPc \in {"nullCheck", "exited"}
           /\ Last(ipcLog) = "open_ipc_event_handle"
           /\ ipcActions = <<>>
           /\ (ipcPc = "exited" => ipcExit \notin {0, NoExit})

\* C6 witness: the child has exited after the open call left the pool null.
C6_Witness ==
    /\ ipcPc = "exited"
    /\ Contains(ipcLog, "open_ipc_event_handle")
    /\ hEventPool = NullPool

\* C7: the application is notified only after debug_attach, keyed by the pid
\* of the launched child, has returned a non-null session.
C7_NotifyOnlyAfterAttach ==
    (notified \/ Contains(dbgLog, "notify")) =>
        /\ debugSession # NullSession
        /\ debugSession.pid = child.pid
        /\ child.state # "none"
        /\ ~Contains(dbgLog, "attach_failed")
        /\ \E i, j \in 1..Len(dbgLog) :
              i < j /\ dbgLog[i] = "attach" /\ dbgLog[j] = "notify"

\* C7 witness: the application has been notified.
C7_Witness == notified /\ Contains(dbgLog, "notify")

\* C8: after a failed attach the debugger only exits, with status 1: no
\* notify, no wait for the child, no detach, no second attach.
C8_AttachFailureExits ==
    (dbgPc # "attach" /\ child.state # "none" /\ debugSession = NullSession) =>
        /\ dbgPc \in {"attachCheck", "exited"}
        /\ (dbgPc = "exited" => dbgExit = 1)
        /\ ~notified
        /\ ~Contains(dbgLog, "notify")
        /\ ~Contains(dbgLog, "wait_returned")
        /\ ~Contains(dbgLog, "detach")
        /\ Occurrences(dbgLog, "attach_failed") = 1
        /\ ~Contains(dbgLog, "attach")
        /\ Last(dbgLog) = "attach_failed"

\* C8 witness: the debugger has exited after a failed attach.
C8_Witness ==
    dbgPc = "exited" /\ child.state # "none" /\ debugSession = NullSession

\* The events of a run in which setup and attach succeed.
SuccessfulRun ==
    <<"zeInit", "device_found", "launch", "attach", "notify", "wait_returned",
      "detach", "exit">>

\* C9: when attach succeeded, what the debugger does is a prefix of launch,
\* attach, notify, child exit observed, detach, exit, the whole of it once the
\* debugger has exited; the wait returns only when the child has exited, and
\* debug_detach is called at most once, only after that.
C9_DetachOnceAfterWait ==
    debugSession # NullSession =>
        /\ IsPrefix(dbgLog, SuccessfulRun)
        /\ (dbgPc = "exited" => dbgLog = SuccessfulRun)
        /\ (Contains(dbgLog, "wait_returned") => child.state = "exited")
        /\ Occurrences(dbgLog, "detach") <= 1
        /\ (dbgPc = "exited" => Occurrences(dbgLog, "detach") = 1)

\* C9 witness: the debugger has exited after a successful attach.
C9_Witness == debugSession # NullSession /\ dbgPc = "exited"

\* zeInit has returned something else than success, or the device lookup has
\* been checked and found nothing.
SetupFailed ==
    \/ dbgResult \notin {Uninitialized, "ZE_RESULT_SUCCESS"}
    \/ (dbgPc \notin {"parse", "zeInit", "findDevice", "deviceCheck"}
        /\ device = NullDevice)

\* C10: after a setup failure the debugger has exited with a non-zero status
\* and has launched no child, attached no session and notified nobody, and
\* the failed step was done once.
C10_SetupFailureExits ==
    SetupFailed =>
        /\ dbgPc = "exited"
        /\ dbgExit \notin {0, NoExit}
        /\ child = NoChild
        /\ debugSession = NullSession
        /\ ~notified
        /\ Last(dbgLog) \in {"zeInit_failed", "device_not_found"}
        /\ Occurrences(dbgLog, "zeInit") + Occurrences(dbgLog, "zeInit_failed") = 1
        /\ ~Contains(dbgLog, "launch")

\* C10 witness: the debugger has exited because no device matched.
C10_Witness ==
    dbgPc = "exited" /\ dbgResult = "ZE_RESULT_SUCCESS" /\ device = NullDevice

\* C10 witness of the other setup failure: zeInit failed.
C10_WitnessInit == dbgPc = "exited" /\ dbgResult # "ZE_RESULT_SUCCESS"

\* The child has not copied the record yet.
NotCopied == [hIpcEventPool |-> Uninitialized, child_type |-> Uninitialized]

\* C13: the child copies the shared record at most once, the whole of it,
\* after a successful zeInit and before it opens the IPC handle; the handle it
\* opens is the one of its local copy; and no step changes the shared record.
C13_RecordReadOnce ==
    /\ [](/\ Occurrences(ipcLog, "memcpy") <= 1
          /\ (~Contains(ipcLog, "memcpy") =>
                 shared_data = NotCopied /\ ~Contains(ipcLog, "open_ipc_event_handle"))
          /\ (Contains(ipcLog, "memcpy") =>
                 /\ shared_data = shm
                 /\ ipcLog[1] = "zeInit"
                 /\ \A i, j \in 1..Len(ipcLog) :
                       (ipcLog[i] = "memcpy" /\ ipcLog[j] = "open_ipc_event_handle")
                           => i < j)
          /\ (Contains(ipcLog, "open_ipc_event_handle") =>
                 hEventPool \in {NullPool, PoolOf(shared_data.hIpcEventPool)}))
    /\ [][shm' = shm]_vars

\* C13 witness: the child has copied the record, opened the handle and ended.
C13_Witness ==
    /\ ipcPc = "exited"
    /\ Occurrences(ipcLog, "memcpy") = 1
    /\ Contains(ipcLog, "open_ipc_event_handle")
    /\ hEventPool # NullPool

\* C14: a debugger that attached and has ended has detached first and has
\* ended with the exit status of the child application.
C14_ExitsWithChildStatus ==
    (dbgPc = "exited" /\ debugSession # NullSession) =>
        /\ child.state = "exited"
        /\ dbgExit = child.exit_code
        /\ \E i, j \in 1..Len(dbgLog) :
              i < j /\ dbgLog[i] = "detach" /\ dbgLog[j] = "exit"

\* C14 witness: the debugger has ended with a child status that is neither 0 nor 1.
C14_Witness ==
    dbgPc = "exited" /\ debugSession # NullSession /\ child.exit_code > 1

\* A thread has incremented `ready` and is past the wait.
PassedWait(t) == arrived[t] /\ pc[t] \in {"loop", "returned", "joined"}

\* C15: whenever both threads have arrived at a barrier that started from
\* ready == 0 (so that ready is 2), both threads get past the wait, whatever
\* the interleaving and whatever spurious wake-ups happen.
C15_BothPassTheWait ==
    [](((\A t \in Threads : arrived[t]) /\ ready = Participants)
          => <>(\A t \in Threads : PassedWait(t)))

\* C15 witness: both threads are past the wait of a barrier that started from
\* ready == 0, one of them having blocked in it.
C15_Witness ==
    /\ \A t \in Threads : PassedWait(t)
    /\ ready = Participants
    /\ \E t \in Threads : pc[t] = "loop" /\ pc[Other(t)] = "returned"

\* C16: a child that opened the handle and whose child_type is none of the
\* four selectors has, when it ends, a non-zero exit status and has run none
\* of the child actions.
C16_UnknownTypeExitsNonZero ==
    (/\ ipcPc = "exited"
     /\ Contains(ipcLog, "open_ipc_event_handle")
     /\ hEventPool # NullPool
     /\ shared_data.child_type \notin DefinedChildTypes)
        => /\ ipcExit \notin {0, NoExit}
           /\ ipcActions = <<>>
           /\ ~Contains(ipcLog, "close_ipc_event_handle")

\* C16 witness: such a child has ended.
C16_Witness ==
    /\ ipcPc = "exited"
    /\ Contains(ipcLog, "open_ipc_event_handle")
    /\ hEventPool # NullPool
    /\ shared_data.child_type \notin DefinedChildTypes

\* C19 (as claimed): `ready` never exceeds the participant count.
C19_ReadyAtMostParticipants == ready <= Participants

\* C19 (what the code does for one device): `ready` stays at most 2 as long
\* as the first device is being processed.
C19_FirstDeviceReadyAtMostParticipants == (devIdx = 1) => ready <= Participants

\* The smaller of two sizes.
Smaller(a, b) == IF a < b THEN a ELSE b

\* The do-while of the current device has ended.
LoopEnded == allocPc \in {"expect", "cleanup", "deviceDone"}

\* C11 (as claimed): once the loop has ended, the last make-resident result
\* is out-of-device-memory.
C11_StopsOnlyOnOutOfMemory ==
    LoopEnded => allocResult = "ZE_RESULT_ERROR_OUT_OF_DEVICE_MEMORY"

\* C11 (what the code does): once the loop has ended, the last make-resident
\* result is out-of-device-memory, or the last queried free memory is 0, or
\* the last device allocation returned null.
C11_StopsOnOutOfMemoryOrZeroFreeOrNull ==
    LoopEnded => \/ allocResult = "ZE_RESULT_ERROR_OUT_OF_DEVICE_MEMORY"
                 \/ free_memory = 0
                 \/ ze_buf = 0

\* C11 witness: the loop has ended on a null allocation, after an iteration
\* whose make-resident result was not out-of-device-memory and with free
\* memory left.
C11_Witness ==
    /\ allocPc = "expect"
    /\ vec_ptr # <<>>
    /\ ze_buf = 0
    /\ allocResult # "ZE_RESULT_ERROR_OUT_OF_DEVICE_MEMORY"
    /\ free_memory > 0

\* The last iteration allocated a buffer, its make-resident call returned
\* success, and the free memory queried after it is 0.
SuccessAtZeroFree ==
    /\ allocPc \in {"loopBody", "expect", "cleanup", "deviceDone"}
    /\ ze_buf # 0
    /\ allocResult = "ZE_RESULT_SUCCESS"
    /\ free_memory = 0

\* C12 (as claimed): after a success at zero free memory, the expectation of
\* out-of-device-memory is not recorded as failed.
C12_SuccessGoesUnflagged ==
    (SuccessAtZeroFree /\ allocPc \in {"cleanup", "deviceDone"})
        => ExpectOutOfMemory \notin failures

\* C12 (what the code does): after a success at zero free memory the loop
\* has ended, and once the expectation after the loop has been evaluated its
\* failure is recorded for the device.
C12_SuccessAtZeroFreeIsFlagged ==
    SuccessAtZeroFree =>
        /\ LoopEnded
        /\ allocPc \in {"cleanup", "deviceDone"} => ExpectOutOfMemory \in failures

\* C12 witness: a device is finished after a success at zero free memory,
\* with the failed expectation recorded.
C12_Witness ==
    /\ SuccessAtZeroFree
    /\ allocPc = "deviceDone"
    /\ ExpectOutOfMemory \in failures

\* C17 (as claimed): if every iteration whose make-resident call succeeded
\* was followed by a strictly smaller free memory, the loop has started at
\* most as many iterations as the initial free memory allows (one, if that
\* is 0).
C17_TerminatesIfSuccessShrinks == successShrinks => budget >= 0

\* C17 (what the code does): if every iteration whose make-resident result
\* was not out-of-device-memory was followed by a strictly smaller free
\* memory, the loop has started at most as many iterations as the initial
\* free memory allows (one, if that is 0).
C17_TerminatesIfEveryIterationShrinks == everyShrinks => budget >= 0

\* C17 witness: the loop has ended after using up all the iterations the
\* initial free memory allows, each of them shrinking the free memory.
C17_Witness ==
    /\ allocPc = "expect"
    /\ everyShrinks
    /\ budget = 0
    /\ Len(vec_ptr) >= 2

\* C18: every iteration requests min(alloc_size, free_memory), alloc_size
\* being min(4 GiB, maxMemAllocSize) and free_memory the last queried total;
\* the request exceeds neither that free memory nor the device's maximum
\* allocation size.
C18_RequestIsClampedSize ==
    [][(allocPc = "loopBody" /\ allocPc' # "loopBody") =>
          /\ alloc_size = Smaller(FourGiB, max_alloc_size)
          /\ cur_mem_alloc_size' = Smaller(alloc_size, free_memory)
          /\ cur_mem_alloc_size' <= free_memory
          /\ cur_mem_alloc_size' <= max_alloc_size]_vars

\* C18 witness: a device whose maximum allocation size is above 4 GiB, in an
\* iteration after the first whose request was cut down to the free memory.
C18_Witness ==
    /\ allocPc = "loopQuery"
    /\ Len(vec_ptr) >= 2
    /\ max_alloc_size > FourGiB
    /\ cur_mem_alloc_size > 0
    /\ cur_mem_alloc_size < alloc_size

\* C20: when a device is finished, every buffer allocated in its loop has
\* been handed to zeMemFree exactly once, the vector is empty and the host
\* buffer has been freed once; nothing is freed before the loop has ended.
C20_BuffersFreedOnceAfterLoop ==
    /\ allocPc = "deviceDone" =>
          /\ \A i \in 1..Len(allocated) : Occurrences(freedBufs, allocated[i]) = 1
          /\ Len(freedBufs) = Len(allocated)
          /\ vec_ptr = <<>>
          /\ hostFrees = 1
    /\ allocPc \in {"hostAlloc", "hostResident", "loopBody", "loopQuery",
                    "expect", "cleanup"} =>
          /\ freedBufs = <<>>
          /\ hostFrees = 0
          /\ vec_ptr = allocated

\* C20 witness: a device is finished whose loop ended on a null allocation
\* after two buffers had been allocated.
C20_Witness ==
    /\ allocPc = "deviceDone"
    /\ Len(allocated) >= 2
    /\ ze_buf = 0
    /\ hostFrees = 1

====
